---- MODULE Spec2Model ----
(***************************************************************************)
(* conctest (Rust): a sweep of observations of concurrently executed       *)
(* tasks.  The module models src/rust/src/main.rs: argument handling,      *)
(* the sweep of test_concurrency_profit, the series of scoped threads of   *)
(* observe, the Report and the statistics of an Observation.               *)
(***************************************************************************)
EXTENDS Integers, Sequences, FiniteSets, TLC

\* ------------------------------------------------------------------------
\* Bounds of the model
\* ------------------------------------------------------------------------
\* largest number that is written on the command line (tasks_max, ...)
MaxTasks == 3
\* number of times the system clock changes during one run, by a
\* millisecond forwards or backwards
MaxTicks == 1

\* ------------------------------------------------------------------------
\* Program constants
\* ------------------------------------------------------------------------
ARG_IDX_COMMAND == 1
ARG_IDX_TASKS_MAX == 2
ARG_IDX_N_CYCLES == 3
ARG_IDX_SERIES_SIZE == 4
ARG_IDX_OUT_FILE_PATH == 5
\* number of decimal digits of usize::MAX (18446744073709551615)
UsizeMaxDigits == 20
\* reading of the system clock (ms since SystemTime::UNIX_EPOCH) when the
\* program starts
StartTime == 0

\* ------------------------------------------------------------------------
\* Strings are sequences of characters
\* ------------------------------------------------------------------------
AsciiDigits == <<"0", "1", "2", "3", "4", "5", "6", "7", "8", "9">>

\* a decimal digit that is not ASCII (ARABIC-INDIC DIGIT THREE); the regex
\* class \d is Unicode aware and accepts it
UnicodeDigit == "u0663"

IsAsciiDigit(c) == \E i \in 1..10 : AsciiDigits[i] = c

IsDigit(c) == IsAsciiDigit(c) \/ c = UnicodeDigit

DigitValue(c) == (CHOOSE i \in 1..10 : AsciiDigits[i] = c) - 1

\* Regex ^\d+$ : one or more digits and nothing else
validate_usize(s) == Len(s) >= 1 /\ \A i \in 1..Len(s) : IsDigit(s[i])

RECURSIVE StripZeros(_)
StripZeros(s) ==
    IF Len(s) > 1 /\ s[1] = "0" THEN StripZeros(Tail(s)) ELSE s

RECURSIVE DecimalValue(_)
DecimalValue(s) ==
    IF s = <<>> THEN 0
    ELSE 10 * DecimalValue(SubSeq(s, 1, Len(s) - 1)) + DigitValue(s[Len(s)])

\* str::parse::<usize>: Ok(value) for ASCII digits that fit in usize, Err
\* for any other character and for a value beyond usize::MAX.  The inputs
\* of the model have at most one significant digit or more than
\* UsizeMaxDigits of them, so the number of digits decides the overflow.
str_parse_usize(s) ==
    IF s = <<>> \/ \E i \in 1..Len(s) : ~IsAsciiDigit(s[i])
    THEN [ok |-> FALSE, value |-> 0]
    ELSE IF Len(StripZeros(s)) > UsizeMaxDigits
    THEN [ok |-> FALSE, value |-> 0]
    ELSE [ok |-> TRUE, value |-> DecimalValue(StripZeros(s))]

\* parse_usize: 0 for a string the regex rejects, otherwise the unwrapped
\* result of str::parse, which panics on Err
parse_usize(s) ==
    IF validate_usize(s)
    THEN LET r == str_parse_usize(s)
         IN  IF r.ok THEN [panic |-> FALSE, value |-> r.value]
                     ELSE [panic |-> TRUE, value |-> 0]
    ELSE [panic |-> FALSE, value |-> 0]

\* Vec indexing args[idx] (0-based): panics when idx is out of bounds
HasArg(args, idx) == idx < Len(args)

Arg(args, idx) == args[idx + 1]

parse_command(args) ==
    IF Len(args) > 1
    THEN IF Arg(args, ARG_IDX_COMMAND) = <<"s">> THEN "RequestSysParams"
         ELSE IF Arg(args, ARG_IDX_COMMAND) = <<"p">>
              THEN "MeasureConcurrencyProfit"
              ELSE "Help"
    ELSE "Help"

parse_out_file_path(args) ==
    IF Len(args) = ARG_IDX_OUT_FILE_PATH + 1
    THEN Arg(args, ARG_IDX_OUT_FILE_PATH)
    ELSE <<>>

\* the Args value accept_args starts from
InitialArgs ==
    [command |-> "Help", tasks_max |-> 0, n_cycles |-> 0, series_size |-> 0,
     out_file_path |-> <<>>]

\* the guard of the numeric block of Args::parse
NumericArgsPresent(args) == Len(args) >= 4

\* Args::parse: the Args value, or the panic that ends the program.  The
\* three numbers are read in the order tasks_max, n_cycles, series_size.
Args_parse(args) ==
    IF Len(args) >= 1
    THEN LET cmd == parse_command(args)
         IN  IF NumericArgsPresent(args)
             THEN LET t == parse_usize(Arg(args, ARG_IDX_TASKS_MAX))
                      c == parse_usize(Arg(args, ARG_IDX_N_CYCLES))
                  IN  IF t.panic \/ c.panic
                      THEN [panic |-> "parse_unwrap", args |-> InitialArgs]
                      ELSE IF ~HasArg(args, ARG_IDX_SERIES_SIZE)
                      THEN [panic |-> "index_out_of_bounds",
                            args |-> InitialArgs]
                      ELSE LET s == parse_usize(Arg(args, ARG_IDX_SERIES_SIZE))
                           IN  IF s.panic
                               THEN [panic |-> "parse_unwrap",
                                     args |-> InitialArgs]
                               ELSE [panic |-> "none",
                                     args |-> [command |-> cmd,
                                               tasks_max |-> t.value,
                                               n_cycles |-> c.value,
                                               series_size |-> s.value,
                                               out_file_path |->
                                                 parse_out_file_path(args)]]
             ELSE [panic |-> "none",
                   args |-> [InitialArgs EXCEPT
                               !.command = cmd,
                               !.out_file_path = parse_out_file_path(args)]]
    ELSE [panic |-> "none", args |-> InitialArgs]

\* is_valid without the comparison of series_size with tasks_max
Args_is_valid_unbounded_series(a) ==
    /\ a.tasks_max > 0
    /\ a.n_cycles > 0
    /\ a.series_size > 0

Args_is_valid(a) ==
    /\ a.tasks_max > 0
    /\ a.n_cycles > 0
    /\ a.series_size > 0
    /\ a.series_size <= a.tasks_max

\* ------------------------------------------------------------------------
\* f64 values: a finite ratio n/d in lowest terms, an infinity, or NaN
\* ------------------------------------------------------------------------
RECURSIVE GCD(_, _)
GCD(x, y) == IF y = 0 THEN x ELSE GCD(y, x % y)

Abs(x) == IF x < 0 THEN -x ELSE x

NaN == [k |-> "nan", n |-> 0, d |-> 0]

PosInf == [k |-> "inf", n |-> 1, d |-> 0]

NegInf == [k |-> "inf", n |-> -1, d |-> 0]

Ratio(n, d) ==
    LET g == GCD(Abs(n), d)
    IN  [k |-> "fin", n |-> n \div g, d |-> d \div g]

\* (x as f64)/(y as f64) for integers x and y >= 0
f64_div(x, y) ==
    IF y = 0
    THEN IF x = 0 THEN NaN ELSE IF x > 0 THEN PosInf ELSE NegInf
    ELSE Ratio(x, y)

\* 1.0 - f
f64_one_minus(f) ==
    IF f.k = "nan" THEN NaN
    ELSE IF f.k = "inf" THEN [f EXCEPT !.n = -f.n]
    ELSE Ratio(f.d - f.n, f.d)

\* f*100.0, the percentage that is printed
f64_times_100(f) ==
    IF f.k = "fin" THEN Ratio(100 * f.n, f.d) ELSE f

\* ------------------------------------------------------------------------
\* Task, Observation, Report
\* ------------------------------------------------------------------------
Min(S) == CHOOSE x \in S : \A y \in S : x <= y

Max(S) == CHOOSE x \in S : \A y \in S : x >= y

Task_create(start, duration) == [start |-> start, duration |-> duration]

Task_get_finish(task) == task.start + task.duration

\* recalc_start_relative that moves the duration with the start
Task_recalc_start_relative_all(task, initial_moment) ==
    [start |-> task.start - initial_moment,
     duration |-> task.duration - initial_moment]

\* recalc_start_relative that leaves the start as it is
Task_recalc_start_relative_kept(task, initial_moment) == task

Task_recalc_start_relative(task, initial_moment) ==
    [task EXCEPT !.start = task.start - initial_moment]

count_tasks(obs) == Len(obs.tasks)

\* min()/max() of an iterator and unwrap(): defined for a non-empty schedule
get_earliest_start(obs) ==
    Min({obs.tasks[i].start : i \in 1..Len(obs.tasks)})

get_latest_finish(obs) ==
    Max({Task_get_finish(obs.tasks[i]) : i \in 1..Len(obs.tasks)})

recalc_tasks_relative_earliest_start(obs) ==
    LET initial_moment == get_earliest_start(obs)
    IN  [obs EXCEPT !.tasks =
            [i \in 1..Len(obs.tasks) |->
                Task_recalc_start_relative(obs.tasks[i], initial_moment)]]

get_total_duration(obs) == get_latest_finish(obs) - get_earliest_start(obs)

RECURSIVE SumDurations(_)
SumDurations(tasks) ==
    IF tasks = <<>> THEN 0
    ELSE tasks[1].duration + SumDurations(Tail(tasks))

sum_duration(obs) == SumDurations(obs.tasks)

\* integer division of i128 (the operands are never negative here)
get_mean_task_duration(obs) == sum_duration(obs) \div count_tasks(obs)

RECURSIVE SumSquares(_, _)
SumSquares(tasks, mean) ==
    IF tasks = <<>> THEN 0
    ELSE (mean - tasks[1].duration) * (mean - tasks[1].duration)
         + SumSquares(Tail(tasks), mean)

dispersion(obs) == SumSquares(obs.tasks, get_mean_task_duration(obs))

\* the divisor of the standard deviation: count_tasks() as f64 - 1.0
std_dev_divisor(obs) == count_tasks(obs) - 1

\* (dispersion as f64).sqrt()/divisor as an f64: for a divisor of 0 the
\* quotient is NaN (0.0/0.0) or +inf; otherwise it is described by its
\* integer part
sqrt_div(disp, divisor) ==
    IF divisor = 0
    THEN IF disp = 0 THEN NaN ELSE PosInf
    ELSE [k |-> "fin",
          n |-> Max({r \in 0..disp : (r * divisor) * (r * divisor) <= disp}),
          d |-> 1]

\* the cast `as TimeMs` of the quotient above: NaN becomes 0, a finite
\* value is truncated.  (+inf would saturate; the dispersion of a single
\* task is 0, so it does not arise.)
f64_as_TimeMs(f) ==
    CASE f.k = "nan" -> 0
      [] f.k = "fin" -> f.n

get_standard_deviation(obs) ==
    f64_as_TimeMs(sqrt_div(dispersion(obs), std_dev_divisor(obs)))

\* calc_concurrency_profit: the new value of concurrency_profit
calc_concurrency_profit(obs, task_duration_min) ==
    LET serial_duration == count_tasks(obs) * task_duration_min
    IN  f64_one_minus(f64_div(get_total_duration(obs), serial_duration))

Observation_with_capacity ==
    [tasks |-> <<>>, concurrency_profit |-> Ratio(0, 1)]

register_task(obs, task) == [obs EXCEPT !.tasks = Append(obs.tasks, task)]

count_observations(rep) == Len(rep)

\* a baseline that is the least total duration registered so far
get_task_duration_min_running(rep) ==
    Min({get_total_duration(rep[i]) : i \in 1..Len(rep)})

get_task_duration_min(rep) == get_total_duration(rep[1])

\* register_observation that computes a profit for the first observation
\* too, against its own total duration
register_observation_always_profit(rep, obs) ==
    LET base == IF count_observations(rep) > 0
                THEN get_task_duration_min(rep)
                ELSE get_total_duration(obs)
    IN  Append(rep, recalc_tasks_relative_earliest_start(
                        [obs EXCEPT !.concurrency_profit =
                            calc_concurrency_profit(obs, base)]))

\* register_observation that puts the new observation in front
register_observation_in_front(rep, obs) ==
    LET withProfit ==
            IF count_observations(rep) > 0
            THEN [obs EXCEPT !.concurrency_profit =
                     calc_concurrency_profit(obs, get_task_duration_min(rep))]
            ELSE obs
    IN  <<recalc_tasks_relative_earliest_start(withProfit)>> \o rep

\* register_observation that stores the profit in the first observation
\* of the report instead of the new one
register_observation_profit_to_first(rep, obs) ==
    IF count_observations(rep) > 0
    THEN Append([rep EXCEPT ![1].concurrency_profit =
                    calc_concurrency_profit(obs, get_task_duration_min(rep))],
                recalc_tasks_relative_earliest_start(obs))
    ELSE Append(rep, recalc_tasks_relative_earliest_start(obs))

\* Report::register_observation: the new vector of observations
register_observation(rep, obs) ==
    LET withProfit ==
            IF count_observations(rep) > 0
            THEN [obs EXCEPT !.concurrency_profit =
                     calc_concurrency_profit(obs, get_task_duration_min(rep))]
            ELSE obs
    IN  Append(rep, recalc_tasks_relative_earliest_start(withProfit))

Event(op, k) == [op |-> op, obs |-> k]

\* register_observation that rebases before it computes the profit
register_observation_trace_rebase_first(rep) ==
    LET k == count_observations(rep) + 1
    IN  IF count_observations(rep) > 0
        THEN <<Event("recalc_tasks_relative_earliest_start", k),
               Event("get_task_duration_min", 1),
               Event("calc_concurrency_profit", k)>>
        ELSE <<Event("recalc_tasks_relative_earliest_start", k)>>

\* Report::register_observation: the operations it performs, in their
\* order, each with the number (from 1) of the observation it reads or
\* writes; the new observation gets the number count_observations() + 1
register_observation_trace(rep) ==
    LET k == count_observations(rep) + 1
    IN  IF count_observations(rep) > 0
        THEN <<Event("get_task_duration_min", 1),
               Event("calc_concurrency_profit", k),
               Event("recalc_tasks_relative_earliest_start", k)>>
        ELSE <<Event("recalc_tasks_relative_earliest_start", k)>>

\* format_report: format_observation_totals computes the statistics of
\* every observation of the report
format_report_trace(rep) ==
    [i \in 1..Len(rep) |-> Event("format_observation_totals", i)]

\* Vec indexing observations[idx] (0-based)
HasObservation(rep, idx) == idx < Len(rep)

get_observation(rep, idx) == rep[idx + 1]

\* the line print_profit_entry prints for an observation, with the divisor
\* that get_standard_deviation divides by
profit_entry(obs) ==
    [tasks |-> count_tasks(obs),
     mean |-> get_mean_task_duration(obs),
     std_dev |-> get_standard_deviation(obs),
     std_dev_divisor |-> std_dev_divisor(obs),
     total |-> get_total_duration(obs),
     profit |-> f64_times_100(obs.concurrency_profit)]

\* ------------------------------------------------------------------------
\* observe
\* ------------------------------------------------------------------------
\* now_ms: the milliseconds from the epoch to the instant watch; panics for
\* an instant before the epoch
now_ms(watch) ==
    IF watch < 0 THEN [panic |-> TRUE, value |-> 0]
    ELSE [panic |-> FALSE, value |-> watch]

\* duration_ms that returns the difference when the clock was set back
duration_ms_signed(watch, clock) == [panic |-> FALSE, value |-> clock - watch]

\* duration_ms: the milliseconds elapsed since the instant watch when the
\* clock reads clock; SystemTime::elapsed is Err, and duration_ms panics,
\* when the clock reads an instant before watch
duration_ms(watch, clock) ==
    IF clock < watch THEN [panic |-> TRUE, value |-> 0]
    ELSE [panic |-> FALSE, value |-> clock - watch]

\* a thread whose workload does not come to an end
thread_state_hung(failed, next) ==
    IF failed THEN "panicked" ELSE IF next = "done" THEN "running" ELSE next

\* a thread that goes on after a failed reading of the clock
thread_state_unfailing(failed, next) == next

\* the state of a thread after a reading of the clock: a panic ends it
thread_state(failed, next) == IF failed THEN "panicked" ELSE next

\* count_series without the series of the remainder
count_series_floor(n, series_size) == n \div series_size

\* count_series that always adds a series
count_series_plus_one(n, series_size) == n \div series_size + 1

count_series(n, series_size) ==
    LET n_series == n \div series_size
    IN  IF series_size * n_series < n THEN n_series + 1 ELSE n_series

\* a while loop that does not count the tasks of the series
spawn_guard_total_only(total, in_series, n, series_size) == total < n

\* the condition of the while loop that spawns the tasks of a series
spawn_guard(total, in_series, n, series_size) ==
    total < n /\ in_series < series_size

\* ------------------------------------------------------------------------
\* Command lines of the model
\* ------------------------------------------------------------------------
\* a number with more digits than usize::MAX has
HugeNumber == [i \in 1..(UsizeMaxDigits + 1) |-> "9"]

\* strings that are not numbers of type usize
BadNumbers == {<<"x">>, <<UnicodeDigit>>, HugeNumber}

Digit(v) == <<AsciiDigits[v + 1]>>

\* <Number of tasks>: a sweep up to a smaller number is a prefix of the
\* sweep up to MaxTasks
TaskStrings == {Digit(0), Digit(1), Digit(MaxTasks)} \cup BadNumbers

CycleStrings == {Digit(0), Digit(1)} \cup BadNumbers

SeriesStrings == {Digit(v) : v \in 0..MaxTasks} \cup BadNumbers

CommandStrings == {<<"s">>, <<"p">>, <<"x">>}

FileStrings == {<<"f">>}

ProgramName == <<"c">>

ArgVectors ==
    {<<ProgramName>>}
    \cup {<<ProgramName, c>> : c \in CommandStrings}
    \cup {<<ProgramName, c, t>> : c \in CommandStrings, t \in TaskStrings}
    \cup {<<ProgramName, c, t, y>> :
            c \in CommandStrings, t \in TaskStrings, y \in CycleStrings}
    \cup {<<ProgramName, c, t, y, z>> :
            c \in CommandStrings, t \in TaskStrings, y \in CycleStrings,
            z \in SeriesStrings}
    \cup {<<ProgramName, c, t, y, z, f>> :
            c \in CommandStrings, t \in TaskStrings \ {Digit(MaxTasks)},
            y \in CycleStrings, z \in SeriesStrings, f \in FileStrings}

\* ------------------------------------------------------------------------
\* State
\* ------------------------------------------------------------------------
VARIABLES
    pc,                 \* position of the main thread
    argv,               \* env::args(), until accept_args consumes it
    args,               \* the Args value of main
    panic,              \* "none", or the panic that ended the program
    output,             \* what main has run: "none", "help", "sysparams",
                        \* "profit"
    now,                \* the system clock, ms since the epoch
    report,             \* Report.observations of test_concurrency_profit
    n_tasks,            \* loop variable of test_concurrency_profit
    printed,            \* the lines print_profit_entry has printed
    call,               \* parameters of the running call of observe
    n_series,           \* observe: n_series
    series,             \* observe: index of the for loop over the series
    count_tasks_total,  \* observe: count_tasks_total
    count_tasks_series, \* observe: count_tasks_series
    handles,            \* observe: handles, each with the state of its thread
    obs,                \* observe: obs
    series_sizes,       \* tasks spawned by each scope that has ended
    joined,             \* indices of the handles that have been joined
    clock_steps,        \* number of times the clock has changed
    events              \* the operations on observations, in their order

vars ==
    <<pc, argv, args, panic, output, now, report, n_tasks, printed, call,
      n_series, series, count_tasks_total, count_tasks_series, handles, obs,
      series_sizes, joined, clock_steps, events>>

mainVars == <<argv, args, panic, output>>

sweepVars == <<report, n_tasks, printed>>

observeVars ==
    <<call, n_series, series, count_tasks_total, count_tasks_series, handles,
      obs, series_sizes, joined>>

NoCall == [n_tasks |-> 0, n_cycles |-> 0, series_size |-> 0]

\* the locals of observe when no call is running
NoObserve ==
    /\ call' = NoCall
    /\ n_series' = 0
    /\ series' = 0
    /\ count_tasks_total' = 0
    /\ count_tasks_series' = 0
    /\ handles' = <<>>
    /\ obs' = Observation_with_capacity
    /\ series_sizes' = <<>>
    /\ joined' = <<>>

Init ==
    /\ pc = "main"
    /\ argv \in ArgVectors
    /\ args = InitialArgs
    /\ panic = "none"
    /\ output = "none"
    /\ now = StartTime
    /\ report = <<>>
    /\ n_tasks = 0
    /\ printed = <<>>
    /\ call = NoCall
    /\ n_series = 0
    /\ series = 0
    /\ count_tasks_total = 0
    /\ count_tasks_series = 0
    /\ handles = <<>>
    /\ obs = Observation_with_capacity
    /\ series_sizes = <<>>
    /\ joined = <<>>
    /\ clock_steps = 0
    /\ events = <<>>

\* ------------------------------------------------------------------------
\* main
\* ------------------------------------------------------------------------
\* accept_args(env::args().collect())
AcceptArgs ==
    /\ pc = "main"
    /\ LET r == Args_parse(argv)
       IN  /\ panic' = r.panic
           /\ args' = r.args
           /\ pc' = IF r.panic = "none" THEN "match_command" ELSE "panicked"
    /\ argv' = <<>>
    /\ UNCHANGED <<output, now>>
    /\ UNCHANGED sweepVars
    /\ UNCHANGED observeVars
    /\ UNCHANGED <<clock_steps, events>>

\* Command::Help, and Command::MeasureConcurrencyProfit with invalid Args
PrintHelp ==
    /\ pc = "match_command"
    /\ \/ args.command = "Help"
       \/ args.command = "MeasureConcurrencyProfit" /\ ~Args_is_valid(args)
    /\ output' = "help"
    /\ pc' = "done"
    /\ UNCHANGED <<argv, args, panic, now>>
    /\ UNCHANGED sweepVars
    /\ UNCHANGED observeVars
    /\ UNCHANGED <<clock_steps, events>>

\* Command::RequestSysParams
TestSysparams ==
    /\ pc = "match_command"
    /\ args.command = "RequestSysParams"
    /\ output' = "sysparams"
    /\ pc' = "done"
    /\ UNCHANGED <<argv, args, panic, now>>
    /\ UNCHANGED sweepVars
    /\ UNCHANGED observeVars
    /\ UNCHANGED <<clock_steps, events>>

\* Command::MeasureConcurrencyProfit with valid Args: test_concurrency_profit
\* creates the Report and enters its loop
TestConcurrencyProfit ==
    /\ pc = "match_command"
    /\ args.command = "MeasureConcurrencyProfit"
    /\ Args_is_valid(args)
    /\ output' = "profit"
    /\ report' = <<>>
    /\ n_tasks' = 1
    /\ pc' = "sweep"
    /\ UNCHANGED <<argv, args, panic, now, printed>>
    /\ UNCHANGED observeVars
    /\ UNCHANGED <<clock_steps, events>>

\* ------------------------------------------------------------------------
\* test_concurrency_profit and observe
\* ------------------------------------------------------------------------
\* for n_tasks in 1..tasks_max + 1: the call observe(n_tasks, n_cycles,
\* series_size) up to the for loop over the series
Observe ==
    /\ pc = "sweep"
    /\ n_tasks < args.tasks_max + 1
    /\ call' = [n_tasks |-> n_tasks, n_cycles |-> args.n_cycles,
                series_size |-> args.series_size]
    /\ n_series' = count_series(n_tasks, args.series_size)
    /\ count_tasks_total' = 0
    /\ count_tasks_series' = 0
    /\ handles' = <<>>
    /\ series' = 0
    /\ series_sizes' = <<>>
    /\ joined' = <<>>
    /\ obs' = Observation_with_capacity
    /\ pc' = "for_series"
    /\ UNCHANGED <<now>>
    /\ UNCHANGED mainVars
    /\ UNCHANGED sweepVars
    /\ UNCHANGED <<clock_steps, events>>

\* for _ in 0..n_series: crossbeam::scope begins
ScopeBegin ==
    /\ pc = "for_series"
    /\ series < n_series
    /\ count_tasks_series' = 0
    /\ pc' = "spawn"
    /\ UNCHANGED <<now, call, n_series, series, count_tasks_total, handles,
                   obs, series_sizes, joined>>
    /\ UNCHANGED mainVars
    /\ UNCHANGED sweepVars
    /\ UNCHANGED <<clock_steps, events>>

\* one turn of the while loop: spawner.spawn and handles.push
Spawn ==
    /\ pc = "spawn"
    /\ spawn_guard(count_tasks_total, count_tasks_series, call.n_tasks,
                   call.series_size)
    /\ handles' = Append(handles, [state |-> "spawned", series |-> series,
                                   start |-> 0, duration |-> 0,
                                   fault |-> FALSE])
    /\ count_tasks_series' = count_tasks_series + 1
    /\ count_tasks_total' = count_tasks_total + 1
    /\ UNCHANGED <<pc, now, call, n_series, series, obs, series_sizes,
                   joined>>
    /\ UNCHANGED mainVars
    /\ UNCHANGED sweepVars
    /\ UNCHANGED <<clock_steps, events>>

\* the while loop ends and the closure of the scope returns
SpawnEnd ==
    /\ pc = "spawn"
    /\ ~spawn_guard(count_tasks_total, count_tasks_series, call.n_tasks,
                    call.series_size)
    /\ pc' = "scope_end"
    /\ UNCHANGED <<now>>
    /\ UNCHANGED mainVars
    /\ UNCHANGED sweepVars
    /\ UNCHANGED observeVars
    /\ UNCHANGED <<clock_steps, events>>

\* a scope that does not wait for its threads
scope_joined_nowait(hs, s) == TRUE

\* a scope that waits for the first of its threads only
scope_joined_first(hs, s) ==
    \A i \in 1..Len(hs) :
        (hs[i].series = s /\ \A j \in 1..(i - 1) : hs[j].series # s)
            => hs[i].state \in {"done", "panicked"}

\* the threads a scope waits for when it ends: those spawned within it
scope_joined(hs, s) ==
    \A i \in 1..Len(hs) :
        hs[i].series = s => hs[i].state \in {"done", "panicked"}

\* a thread of the scope has panicked
scope_panicked(hs, s) ==
    \E i \in 1..Len(hs) : hs[i].series = s /\ hs[i].state = "panicked"

\* crossbeam::scope returns once the threads spawned in it have finished;
\* joining a thread that has panicked panics in the main thread
ScopeEnd ==
    /\ pc = "scope_end"
    /\ scope_joined(handles, series)
    /\ IF scope_panicked(handles, series)
       THEN /\ pc' = "panicked"
            /\ panic' = "task_panicked"
            /\ UNCHANGED <<series_sizes, series>>
       ELSE /\ series_sizes' = Append(series_sizes, count_tasks_series)
            /\ series' = series + 1
            /\ pc' = "for_series"
            /\ UNCHANGED panic
    /\ UNCHANGED <<now, call, n_series, count_tasks_total, count_tasks_series,
                   handles, obs, joined>>
    /\ UNCHANGED <<argv, args, output>>
    /\ UNCHANGED sweepVars
    /\ UNCHANGED <<clock_steps, events>>

\* standard_task in a spawned thread: watch = SystemTime::now() and
\* start = now_ms(&watch)
TaskStart(i) ==
    /\ i \in 1..Len(handles)
    /\ handles[i].state = "spawned"
    /\ LET r == now_ms(now)
       IN  handles' = [handles EXCEPT
                         ![i].state = thread_state(r.panic, "running"),
                         ![i].fault = r.panic,
                         ![i].start = r.value]
    /\ UNCHANGED <<pc, now, call, n_series, series, count_tasks_total,
                   count_tasks_series, obs, series_sizes,
                   joined>>
    /\ UNCHANGED mainVars
    /\ UNCHANGED sweepVars
    /\ UNCHANGED <<clock_steps, events>>

\* standard_task: iterate has returned, Task::create(start,
\* duration_ms(&watch)) is the result of the thread
TaskFinish(i) ==
    /\ i \in 1..Len(handles)
    /\ handles[i].state = "running"
    /\ LET r == duration_ms(handles[i].start, now)
       IN  handles' = [handles EXCEPT
                         ![i].state = thread_state(r.panic, "done"),
                         ![i].fault = handles[i].fault \/ r.panic,
                         ![i].duration = r.value]
    /\ UNCHANGED <<pc, now, call, n_series, series, count_tasks_total,
                   count_tasks_series, obs, series_sizes,
                   joined>>
    /\ UNCHANGED mainVars
    /\ UNCHANGED sweepVars
    /\ UNCHANGED <<clock_steps, events>>

\* a millisecond passes.  Only tasks read the clock, so time is let pass
\* while observe runs its series.
Tick ==
    /\ pc \in {"for_series", "spawn", "scope_end"}
    /\ clock_steps < MaxTicks
    /\ now' = now + 1
    /\ clock_steps' = clock_steps + 1
    /\ UNCHANGED <<pc, events>>
    /\ UNCHANGED mainVars
    /\ UNCHANGED sweepVars
    /\ UNCHANGED observeVars

\* the system clock is set back by a millisecond (SystemTime is not
\* monotonic)
ClockSetBack ==
    /\ pc \in {"for_series", "spawn", "scope_end"}
    /\ clock_steps < MaxTicks
    /\ now' = now - 1
    /\ clock_steps' = clock_steps + 1
    /\ UNCHANGED <<pc, events>>
    /\ UNCHANGED mainVars
    /\ UNCHANGED sweepVars
    /\ UNCHANGED observeVars

\* the for loop over the series ends
SeriesEnd ==
    /\ pc = "for_series"
    /\ ~(series < n_series)
    /\ obs' = Observation_with_capacity
    /\ pc' = "collect"
    /\ UNCHANGED <<now, call, n_series, series, count_tasks_total,
                   count_tasks_series, handles, series_sizes, joined>>
    /\ UNCHANGED mainVars
    /\ UNCHANGED sweepVars
    /\ UNCHANGED <<clock_steps, events>>

\* the result handle.join() returns for the handle at index i
handle_join(hs, i) == Task_create(hs[i].start, hs[i].duration)

\* for handle in handles: obs.register_task(handle.join())
Collect ==
    /\ pc = "collect"
    /\ count_tasks(obs) < Len(handles)
    /\ handles[count_tasks(obs) + 1].state = "done"
    /\ obs' = register_task(obs, handle_join(handles, count_tasks(obs) + 1))
    /\ joined' = Append(joined, count_tasks(obs) + 1)
    /\ UNCHANGED <<pc, now, call, n_series, series, count_tasks_total,
                   count_tasks_series, handles, series_sizes>>
    /\ UNCHANGED mainVars
    /\ UNCHANGED sweepVars
    /\ UNCHANGED <<clock_steps, events>>

\* observe returns obs
ObserveReturn ==
    /\ pc = "collect"
    /\ count_tasks(obs) = Len(handles)
    /\ pc' = "register"
    /\ UNCHANGED <<now>>
    /\ UNCHANGED mainVars
    /\ UNCHANGED sweepVars
    /\ UNCHANGED observeVars
    /\ UNCHANGED <<clock_steps, events>>

\* report.register_observation(obs)
RegisterObservation ==
    /\ pc = "register"
    /\ report' = register_observation(report, obs)
    /\ events' = events \o register_observation_trace(report)
    /\ pc' = "print"
    /\ NoObserve
    /\ UNCHANGED <<now, n_tasks, printed, clock_steps>>
    /\ UNCHANGED mainVars

\* print_profit_entry(report.get_observation(n_tasks - 1)) and the end of
\* the body of the loop
PrintProfitEntry ==
    /\ pc = "print"
    /\ IF HasObservation(report, n_tasks - 1)
       THEN /\ printed' = Append(printed,
                              profit_entry(get_observation(report, n_tasks - 1)))
            /\ events' = Append(events, Event("print_profit_entry", n_tasks))
            /\ n_tasks' = n_tasks + 1
            /\ pc' = "sweep"
            /\ UNCHANGED panic
       ELSE /\ panic' = "index_out_of_bounds_report"
            /\ pc' = "panicked"
            /\ UNCHANGED <<printed, n_tasks, events>>
    /\ UNCHANGED <<argv, args, output, now, report, clock_steps>>
    /\ UNCHANGED observeVars

\* the loop of test_concurrency_profit ends; format_report and save_text
SaveReport ==
    /\ pc = "sweep"
    /\ ~(n_tasks < args.tasks_max + 1)
    /\ events' = events \o format_report_trace(report)
    /\ pc' = "done"
    /\ UNCHANGED <<now, clock_steps>>
    /\ UNCHANGED mainVars
    /\ UNCHANGED sweepVars
    /\ UNCHANGED observeVars

Next ==
    \/ AcceptArgs
    \/ PrintHelp
    \/ TestSysparams
    \/ TestConcurrencyProfit
    \/ Observe
    \/ ScopeBegin
    \/ Spawn
    \/ SpawnEnd
    \/ ScopeEnd
    \/ \E i \in 1..MaxTasks : TaskStart(i)
    \/ \E i \in 1..MaxTasks : TaskFinish(i)
    \/ Tick
    \/ ClockSetBack
    \/ SeriesEnd
    \/ Collect
    \/ ObserveReturn
    \/ RegisterObservation
    \/ PrintProfitEntry
    \/ SaveReport

Spec == Init /\ [][Next]_vars

\* ------------------------------------------------------------------------
\* The last step of a sweep, under fair scheduling
\* ------------------------------------------------------------------------
\* the observation observe returns when all its k tasks start and finish
\* within the millisecond in which the program starts
QuietObservation(k) ==
    [tasks |-> [i \in 1..k |-> Task_create(StartTime, 0)],
     concurrency_profit |-> Observation_with_capacity.concurrency_profit]

\* the report after k steps of a sweep with such observations
RECURSIVE QuietReport(_)
QuietReport(k) ==
    IF k = 0 THEN <<>>
    ELSE register_observation(QuietReport(k - 1), QuietObservation(k))

\* the operations of these k steps
RECURSIVE QuietEvents(_)
QuietEvents(k) ==
    IF k = 0 THEN <<>>
    ELSE QuietEvents(k - 1)
         \o register_observation_trace(QuietReport(k - 1))
         \o <<Event("print_profit_entry", k)>>

\* the states in which the loop of test_concurrency_profit begins its last
\* step (n_tasks = tasks_max), when the clock has not changed so far
LastStepInit ==
    \E k \in 1..MaxTasks : \E s \in 1..k :
        /\ pc = "sweep"
        /\ argv = <<>>
        /\ args = [command |-> "MeasureConcurrencyProfit", tasks_max |-> k,
                   n_cycles |-> 1, series_size |-> s, out_file_path |-> <<>>]
        /\ panic = "none"
        /\ output = "profit"
        /\ now = StartTime
        /\ report = QuietReport(k - 1)
        /\ n_tasks = k
        /\ printed = [i \in 1..(k - 1) |-> profit_entry(QuietReport(k - 1)[i])]
        /\ call = NoCall
        /\ n_series = 0
        /\ series = 0
        /\ count_tasks_total = 0
        /\ count_tasks_series = 0
        /\ handles = <<>>
        /\ obs = Observation_with_capacity
        /\ series_sizes = <<>>
        /\ joined = <<>>
        /\ clock_steps = 0
        /\ events = QuietEvents(k - 1)

\* the steps of the main thread from a step of the loop of
\* test_concurrency_profit to the end of main
SweepThread ==
    \/ Observe
    \/ ScopeBegin
    \/ Spawn
    \/ SpawnEnd
    \/ ScopeEnd
    \/ SeriesEnd
    \/ Collect
    \/ ObserveReturn
    \/ RegisterObservation
    \/ PrintProfitEntry
    \/ SaveReport

SweepNext ==
    \/ SweepThread
    \/ \E i \in 1..MaxTasks : TaskStart(i)
    \/ \E i \in 1..MaxTasks : TaskFinish(i)
    \/ Tick
    \/ ClockSetBack

\* fair scheduling: the main thread and every spawned thread go on when
\* they can; iterate is a loop of n_cycles turns, so a task that has
\* started comes to its end
FairSpec ==
    /\ LastStepInit
    /\ [][SweepNext]_vars
    /\ WF_vars(SweepThread)
    /\ \A i \in 1..MaxTasks : WF_vars(TaskStart(i)) /\ WF_vars(TaskFinish(i))

\* ------------------------------------------------------------------------
\* Properties
\* ------------------------------------------------------------------------
InObserve == pc \in {"for_series", "spawn", "scope_end", "collect", "register"}

Running == {i \in 1..Len(handles) : handles[i].state = "running"}

RECURSIVE SeqSum(_)
SeqSum(q) == IF q = <<>> THEN 0 ELSE q[1] + SeqSum(Tail(q))

\* ceil(n/s) for s > 0
CeilDiv(n, s) == (n + s - 1) \div s

\* C1: when observe returns, the schedule has exactly n_tasks entries, and
\* the entries are the results of the launched tasks, each task once
C1_ScheduleSize ==
    pc = "register" =>
        /\ count_tasks(obs) = call.n_tasks
        /\ Len(handles) = call.n_tasks
        /\ Len(joined) = call.n_tasks
        /\ \A h \in 1..Len(handles) :
               Cardinality({k \in 1..Len(joined) : joined[k] = h}) = 1
        /\ \A k \in 1..Len(joined) :
               /\ obs.tasks[k].start = handles[joined[k]].start
               /\ obs.tasks[k].duration = handles[joined[k]].duration

\* observe returns a schedule of several tasks made in more than one series
C1_Witness ==
    /\ pc = "register"
    /\ call.n_tasks = MaxTasks
    /\ Len(series_sizes) > 1
    /\ count_tasks(obs) = MaxTasks

\* C2: once a task of a later series has been launched, every task of
\* every earlier series has completed
C2_SeriesBarrier ==
    \A i \in 1..Len(handles) : \A j \in 1..Len(handles) :
        handles[i].series < handles[j].series => handles[i].state = "done"

\* a task of the second series is running after a first series of two
C2_Witness ==
    /\ \E j \in 1..Len(handles) :
           handles[j].series = 1 /\ handles[j].state = "running"
    /\ Cardinality({i \in 1..Len(handles) : handles[i].series = 0}) = 2

\* C3: the number of tasks that are started and not finished never
\* exceeds series_size; with series_size = 1 no two tasks run together
C3_PeakConcurrency ==
    InObserve =>
        /\ Cardinality(Running) <= call.series_size
        /\ call.series_size = 1 => Cardinality(Running) <= 1

\* as many tasks as series_size allows run together while more remain
C3_Witness ==
    /\ InObserve
    /\ call.series_size = 2
    /\ call.n_tasks = 3
    /\ Cardinality(Running) = 2

\* C4: the series that have ended have the sizes min(series_size,
\* remaining); when all have ended there are ceil(n_tasks/series_size) of
\* them, none is empty, all but the last are full and the sizes sum to
\* n_tasks (4, 4, 2 for 10 tasks in series of 4)
C4_SeriesPartition ==
    /\ InObserve =>
          \A k \in 1..Len(series_sizes) :
              /\ series_sizes[k] =
                    Min({call.series_size,
                         call.n_tasks - (k - 1) * call.series_size})
              /\ series_sizes[k] >= 1
              /\ k < Len(series_sizes) => series_sizes[k] = call.series_size
    /\ pc \in {"collect", "register"} =>
          /\ n_series = CeilDiv(call.n_tasks, call.series_size)
          /\ Len(series_sizes) = CeilDiv(call.n_tasks, call.series_size)
          /\ SeqSum(series_sizes) = call.n_tasks
    /\ count_series(10, 4) = 3

\* all series have ended and the last one is not full
C4_Witness ==
    /\ pc = "collect"
    /\ series_sizes = <<2, 1>>

\* C5 as stated: observe is only invoked with n_tasks >= 1 and
\* 1 <= series_size <= n_tasks
C5_ObserveWithinTaskCount ==
    InObserve =>
        /\ call.n_tasks >= 1
        /\ call.series_size >= 1
        /\ call.series_size <= call.n_tasks

\* C5 amended: observe is only invoked with n_tasks >= 1 and
\* 1 <= series_size <= tasks_max, where n_tasks <= tasks_max; series_size
\* exceeds n_tasks in the steps of the sweep with n_tasks < series_size
C5_ObserveWithinTasksMax ==
    InObserve =>
        /\ call.n_tasks >= 1
        /\ call.n_tasks <= args.tasks_max
        /\ call.series_size >= 1
        /\ call.series_size <= args.tasks_max
        /\ call.series_size = args.series_size

\* observe runs with a series_size that exceeds its task count
C5_Witness ==
    /\ InObserve
    /\ call.series_size > call.n_tasks
    /\ Len(handles) = call.n_tasks

\* C6: the least start of the schedule of every observation of the report
\* is 0
C6_RebasedMinStart ==
    \A i \in 1..Len(report) :
        count_tasks(report[i]) >= 1 =>
            /\ \E k \in 1..Len(report[i].tasks) : report[i].tasks[k].start = 0
            /\ \A k \in 1..Len(report[i].tasks) : report[i].tasks[k].start >= 0

\* an observation whose tasks started at different moments is registered
C6_Witness ==
    \E i \in 1..Len(report) :
        \E k \in 1..Len(report[i].tasks) : report[i].tasks[k].start > 0

\* the f64 value f is 1 - t/s
IsOneMinus(f, t, s) ==
    IF s = 0
    THEN IF t = 0 THEN f.k = "nan" ELSE f.k = "inf" /\ f.n = -1
    ELSE f.k = "fin" /\ f.n * s = f.d * (s - t)

\* total duration of the observation at index i (from 1) of the report
ReportTotal(i) ==
    Max({report[i].tasks[k].start + report[i].tasks[k].duration :
            k \in 1..Len(report[i].tasks)})
    - Min({report[i].tasks[k].start : k \in 1..Len(report[i].tasks)})

\* C7: the profit of every observation after the first is computed
\* against the total duration of the first observation
C7_FixedBaseline ==
    \A i \in 2..Len(report) :
        IsOneMinus(report[i].concurrency_profit, ReportTotal(i),
                   Len(report[i].tasks) * ReportTotal(1))

\* an observation is registered after one whose total duration is less
\* than that of the first
C7_Witness ==
    /\ Len(report) >= 3
    /\ ReportTotal(2) < ReportTotal(1)

IsZero(f) == f.k = "fin" /\ f.n = 0

\* C8: the profit is 1 - totalDuration/(taskCount*baselineDuration), it is
\* 0 exactly when totalDuration = taskCount*baselineDuration, and a
\* baseline of 50 with 2 tasks of total duration 55 gives 0.45
C8_ProfitFormula ==
    /\ \A i \in 2..Len(report) :
          LET t == ReportTotal(i)
              s == Len(report[i].tasks) * ReportTotal(1)
          IN  /\ IsOneMinus(report[i].concurrency_profit, t, s)
              /\ IsZero(report[i].concurrency_profit) <=> t = s
    /\ calc_concurrency_profit(
           [tasks |-> <<Task_create(7, 55), Task_create(7, 50)>>,
            concurrency_profit |-> Ratio(0, 1)], 50)
       = [k |-> "fin", n |-> 9, d |-> 20]

\* C9: for an observation of one task the standard deviation is 0 and is
\* not obtained by a division by 0
C9_SingleTaskStdDevGuarded ==
    \A k \in 1..Len(printed) :
        printed[k].tasks = 1 =>
            /\ printed[k].std_dev = 0
            /\ printed[k].std_dev_divisor # 0

\* C10: argument handling never crashes: main prints the help or runs the
\* selected command
C10_ArgumentsNeverCrash ==
    /\ panic \notin {"parse_unwrap", "index_out_of_bounds"}
    /\ pc = "done" => output \in {"help", "sysparams", "profit"}

\* C11: when a task of an observation fails, observe does not return:
\* no schedule is collected and nothing is registered for that task count
C11_TaskFailureAborts ==
    /\ (\E i \in 1..Len(handles) : handles[i].fault) =>
          /\ pc \in {"spawn", "scope_end", "panicked"}
          /\ obs.tasks = <<>>
          /\ joined = <<>>
          /\ Len(report) = call.n_tasks - 1
    /\ panic = "task_panicked" =>
          /\ pc = "panicked"
          /\ \E i \in 1..Len(handles) : handles[i].fault
          /\ Len(report) = n_tasks - 1
          /\ Len(printed) = n_tasks - 1

\* a task of a later observation has failed and the program has ended
C11_Witness ==
    /\ panic = "task_panicked"
    /\ Len(report) >= 1
    /\ \E i \in 1..Len(handles) : handles[i].state = "done"

\* C12: the observation registered into an empty report has the profit 0,
\* and no profit is calculated for it
C12_BaselineProfitZero ==
    /\ Len(report) >= 1 =>
          report[1].concurrency_profit = [k |-> "fin", n |-> 0, d |-> 1]
    /\ \A e \in 1..Len(events) :
          events[e].op = "calc_concurrency_profit" => events[e].obs > 1

\* the first observation, of a total duration that is not 0, is registered
C12_Witness ==
    /\ pc = "print"
    /\ Len(report) = 1
    /\ ReportTotal(1) > 0

NonNegative(task) ==
    task.duration >= 0 /\ task.start + task.duration >= task.start

\* C13: every entry of every schedule, before and after rebasing, has a
\* duration >= 0 and a finish >= its start
C13_DurationNonNegative ==
    /\ \A i \in 1..Len(handles) :
          handles[i].state = "done" => NonNegative(handles[i])
    /\ \A k \in 1..Len(obs.tasks) : NonNegative(obs.tasks[k])
    /\ \A i \in 1..Len(report) :
          \A k \in 1..Len(report[i].tasks) : NonNegative(report[i].tasks[k])

\* the clock has been set back while an observation was running, after
\* another observation has been registered
C13_Witness ==
    /\ now < StartTime
    /\ Len(report) >= 1
    /\ \E i \in 1..Len(handles) : handles[i].state = "panicked"

\* C14: the observation at index i (from 0) of the report has i + 1 tasks,
\* and the index n_tasks - 1 that is read after a registration exists and
\* holds the observation of n_tasks tasks
C14_ReportOrder ==
    /\ \A i \in 1..Len(report) : count_tasks(report[i]) = i
    /\ pc = "print" =>
          /\ HasObservation(report, n_tasks - 1)
          /\ count_tasks(get_observation(report, n_tasks - 1)) = n_tasks
          /\ Len(report) = n_tasks
    /\ \A k \in 1..Len(printed) : printed[k].tasks = k
    /\ panic # "index_out_of_bounds_report"

\* the last observation of a sweep has been registered
C14_Witness ==
    /\ pc = "print"
    /\ n_tasks = MaxTasks
    /\ Len(report) = MaxTasks

\* C15: the profit of every observation after the first is a ratio that
\* is defined and not greater than 1, for every baseline including 0
C15_ProfitWellDefined ==
    \A i \in 2..Len(report) :
        LET f == report[i].concurrency_profit
        IN  /\ f.k # "nan"
            /\ f.k = "inf" => f.n = -1
            /\ f.k = "fin" => f.n <= f.d

\* C17: the schedule grows only in the loop over the handles of the main
\* thread, by the result of the next handle, when the last series has been
\* joined and no task is running; a step of a task leaves it as it is
C17_ScheduleWrittenByCoordinator ==
    [][Len(obs'.tasks) > Len(obs.tasks) =>
           /\ pc = "collect"
           /\ series = n_series
           /\ \A i \in 1..Len(handles) : handles[i].state = "done"
           /\ handles' = handles
           /\ obs'.tasks =
                 Append(obs.tasks,
                        [start |-> handles[Len(obs.tasks) + 1].start,
                         duration |-> handles[Len(obs.tasks) + 1].duration])
      ]_vars

\* the schedule of an observation of more than one series is being collected
C17_Witness ==
    /\ pc = "collect"
    /\ Len(series_sizes) >= 2
    /\ Len(obs.tasks) >= 1

\* positions of the events with one of the operations ops on observation k
EventsOf(ops, k) ==
    {e \in 1..Len(events) : events[e].op \in ops /\ events[e].obs = k}

RebaseOps == {"recalc_tasks_relative_earliest_start"}

StatisticOps ==
    {"calc_concurrency_profit", "get_task_duration_min",
     "print_profit_entry", "format_observation_totals"}

\* C18 as stated: every observation is rebased once, and every statistic
\* of it is computed before it is rebased
C18_StatisticsBeforeRebasing ==
    \A k \in 1..Len(report) :
        /\ Cardinality(EventsOf(RebaseOps, k)) = 1
        /\ \A e \in EventsOf(StatisticOps, k) :
              \A r \in EventsOf(RebaseOps, k) : e < r

\* C18 amended: every observation is rebased once, after its profit has
\* been calculated; the statistics that are printed and saved, and the
\* baseline, are computed after the rebasing, from the rebased schedule
C18_ProfitBeforeRebasing ==
    \A k \in 1..Len(report) :
        /\ Cardinality(EventsOf(RebaseOps, k)) = 1
        /\ \A e \in EventsOf({"calc_concurrency_profit"}, k) :
              \A r \in EventsOf(RebaseOps, k) : e < r
        /\ \A e \in EventsOf(StatisticOps \ {"calc_concurrency_profit"}, k) :
              \A r \in EventsOf(RebaseOps, k) : r < e
        /\ pc \in {"sweep", "done"} =>
              EventsOf({"print_profit_entry"}, k) # {}

\* the statistics of an observation with a profit have been printed
C18_Witness ==
    /\ EventsOf({"calc_concurrency_profit"}, 2) # {}
    /\ EventsOf({"print_profit_entry"}, 2) # {}
    /\ EventsOf({"get_task_duration_min"}, 1) # {}

\* C19: a registration appends one observation to the report and leaves
\* the observations registered before as they are
C19_RegisteredIsFrozen ==
    [][report' # report =>
           /\ Len(report') = Len(report) + 1
           /\ \A i \in 1..Len(report) : report'[i] = report[i]
      ]_vars

\* an observation has been registered after two others
C19_Witness ==
    /\ Len(report) = 3
    /\ pc = "print"

\* the statistics of an observation
Statistics(o) ==
    [total |-> get_total_duration(o),
     sum |-> sum_duration(o),
     mean |-> get_mean_task_duration(o),
     std_dev |-> get_standard_deviation(o)]

\* C20: rebasing leaves the total duration, the sum of the durations, the
\* mean and the standard deviation as they are, rebasing again changes no
\* entry, and the baseline read from the rebased first observation is its
\* total duration before the rebasing
C20_RebasingKeepsStatistics ==
    /\ pc = "register" =>
          LET r == recalc_tasks_relative_earliest_start(obs)
          IN  /\ Statistics(r) = Statistics(obs)
              /\ recalc_tasks_relative_earliest_start(r) = r
              /\ report = <<>> =>
                    get_task_duration_min(register_observation(report, obs))
                        = get_total_duration(obs)
    /\ \A i \in 1..Len(report) :
          recalc_tasks_relative_earliest_start(report[i]) = report[i]

\* observe has returned a schedule of several tasks that started after
\* the start of the program, so that rebasing changes their starts
C20_Witness ==
    /\ pc = "register"
    /\ count_tasks(obs) >= 2
    /\ get_earliest_start(obs) > StartTime

\* C16 as stated: under fair scheduling every call of observe returns
C16_ObserveAlwaysReturns ==
    (pc = "for_series" /\ series = 0) ~> (pc = "register")

\* C16 amended: under fair scheduling a call of observe returns or is
\* aborted by the panic of a task; it returns only when every task of
\* every series has finished, and while a task has not finished no later
\* series is launched and no entry of the schedule is delivered
C16_ObserveReturns ==
    /\ (pc = "for_series" /\ series = 0)
          ~> (pc = "register" \/ panic = "task_panicked")
    /\ [](pc \in {"collect", "register"} =>
            /\ Len(handles) = call.n_tasks
            /\ series = n_series
            /\ \A i \in 1..Len(handles) : handles[i].state = "done")
    /\ []((\E i \in 1..Len(handles) : handles[i].state # "done") =>
            /\ obs.tasks = <<>>
            /\ \A i \in 1..Len(handles) :
                  handles[i].state # "done" => handles[i].series = series)

\* observe has returned after it has launched and joined several series
C16_Witness ==
    /\ pc = "register"
    /\ Len(series_sizes) >= 2
    /\ count_tasks(obs) = MaxTasks

====
